---- MODULE Spec2Model ----
(***************************************************************************)
(* Model of deepmd/entrypoints/compress.py: one run of compress().         *)
(*                                                                         *)
(* compress() reads two tensors from the input frozen model, assembles the *)
(* training configuration, normalizes and checks it, writes the control    *)
(* file compress.json and then calls train, freeze and transfer in turn.   *)
(* get_tensor_by_name, normalize, train, freeze and transfer are called,   *)
(* not defined, in this file: each call is modelled at its call site, its  *)
(* result (a return, or one of the exception kinds) chosen by \E.          *)
(*                                                                         *)
(* Abstractions.  A file's content is a record tagged by "kind".  The      *)
(* text of the training script is an abstract JSON text: either the        *)
(* document it encodes or garbage that json.loads rejects.  step is a      *)
(* float in the source; here it is counted in whole units of an arbitrary  *)
(* resolution, so that 10 * step is exact.  frequency is a string, here a  *)
(* sequence of one-character strings, and int() is computed on it.         *)
(***************************************************************************)
EXTENDS Integers, Sequences, FiniteSets, TLC

VARIABLES
    pc,               \* position in compress(): the next step to run
    input,            \* argument: path of the frozen model to compress
    output,           \* argument: path of the compressed model
    extrapolate,      \* argument: int
    step,             \* argument: float (in units, see above)
    frequency,        \* argument: str
    fs,               \* the file system: path -> content
    input_model,      \* history: the content of the input file when compress starts
    checkpoint,       \* content of checkpoint_folder
    tf_graph,         \* names of the nodes added to the default tf graph
    t_jdata,          \* local: the training-script tensor
    t_min_nbor_dist,  \* local: the min_nbor_dist tensor
    jdata,            \* local: the configuration
    normalize_arg,    \* history: the argument normalize was called with
    calls,            \* history: the stages invoked, in order, with what each saw
    completed,        \* history: the stages that returned without raising
    raised_in,        \* history: where the first exception was raised, and its kind
    writes,           \* history: the file writes, in order: [path, by]
    outcome           \* how compress ended: Running, Returned or an exception

vars == << pc, input, output, extrapolate, step, frequency, fs, input_model, checkpoint,
           tf_graph, t_jdata, t_min_nbor_dist, jdata, normalize_arg, calls,
           completed, raised_in, writes, outcome >>

----------------------------------------------------------------------------
(* Bounds of the model *)

MaxExtrapolate == 2
MaxStep == 2
MaxMinNborDist == 2

(* The step multiplier of the second table (docstring and line 85) *)
SecondTableFactor == 10

----------------------------------------------------------------------------
(* Paths *)

\* two paths for models
ModelPaths == {"a.pb", "b.pb"}

\* line 101
control_file == "compress.json"

\* input and output are any paths, the control file's included
Paths == ModelPaths \cup {control_file}

----------------------------------------------------------------------------
(* Exceptions *)

Running == [kind |-> "Running", cause |-> "none", raised_by |-> "none"]
Returned == [kind |-> "Returned", cause |-> "none", raised_by |-> "none"]

\* an exception leaving compress as the callee raised it
Propagated(e, site) == [kind |-> e, cause |-> "none", raised_by |-> site]

\* raise RuntimeError(...) from e, in compress itself
Translated(e) == [kind |-> "RuntimeError", cause |-> e, raised_by |-> "compress"]

\* what a called function may raise
CalleeExceptions ==
    {"GraphWithoutTensorError", "GraphTooLargeError", "RuntimeError", "OSError"}

----------------------------------------------------------------------------
(* int(frequency), line 86: Python's int() on a string.  Surrounding       *)
(* blanks are stripped, one sign is allowed, and what remains must be a    *)
(* non-empty run of decimal digits; anything else is a ValueError.  (The   *)
(* digit-group underscore of Python 3.6 is not in the modelled alphabet.)  *)

Digits == <<"0", "1", "2", "3", "4", "5", "6", "7", "8", "9">>

IsDigit(c) == \E i \in 1..Len(Digits) : Digits[i] = c

DigitValue(c) == (CHOOSE i \in 1..Len(Digits) : Digits[i] = c) - 1

RECURSIVE lstrip(_)
lstrip(s) == IF s # <<>> /\ Head(s) = " " THEN lstrip(Tail(s)) ELSE s

RECURSIVE rstrip(_)
rstrip(s) ==
    IF s # <<>> /\ s[Len(s)] = " " THEN rstrip(SubSeq(s, 1, Len(s) - 1)) ELSE s

strip(s) == rstrip(lstrip(s))

HasSign(s) == s # <<>> /\ Head(s) \in {"+", "-"}

Unsigned(s) == IF HasSign(s) THEN Tail(s) ELSE s

RECURSIVE DecimalValue(_)
DecimalValue(ds) ==
    IF ds = <<>> THEN 0
    ELSE 10 * DecimalValue(SubSeq(ds, 1, Len(ds) - 1)) + DigitValue(ds[Len(ds)])

int_raises(s) ==
    LET ds == Unsigned(strip(s))
    IN  ds = <<>> \/ \E i \in 1..Len(ds) : ~IsDigit(ds[i])

int(s) ==
    LET t == strip(s)
        v == DecimalValue(Unsigned(t))
    IN  IF HasSign(t) /\ Head(t) = "-" THEN 0 - v ELSE v

\* the frequency strings of the model: "1", "10", "-5", " 7 ", "+3", "1e2", ""
Frequencies ==
    { <<"1">>, <<"1", "0">>, <<"-", "5">>, <<" ", "7", " ">>, <<"+", "3">>,
      <<"1", "e", "2">>, <<>> }

----------------------------------------------------------------------------
(* Tensors, documents and file contents *)

NoTensor == [kind |-> "no_tensor"]

\* the text of a training script that decodes to doc, and one that does not decode
JsonText(doc) == [kind |-> "json_text", doc |-> doc]
Garbage == [kind |-> "garbage"]

FloatTensor(v) == [kind |-> "float", val |-> v]

\* a model.compress section left in the script by an earlier run
OldCompress == [model_file |-> "older.pb", stale_key |-> TRUE]

ScriptDescriptors == {[type |-> "se_a"], [type |-> "loc_frame"]}

ScriptModels ==
    { [descriptor |-> d, fitting_net |-> [type |-> "ener"]] :
          d \in ScriptDescriptors }
    \cup
    { [descriptor |-> d, fitting_net |-> [type |-> "ener"],
       compress |-> OldCompress] : d \in ScriptDescriptors }

\* the training scripts: with a "model" section, and one without
ScriptDocs ==
    { [model |-> m, learning_rate |-> [type |-> "exp"]] : m \in ScriptModels }
    \cup { [learning_rate |-> [type |-> "exp"]] }

ScriptTensors == {JsonText(d) : d \in ScriptDocs} \cup {Garbage, NoTensor}

MinNborTensors == {FloatTensor(v) : v \in 1..MaxMinNborDist} \cup {NoTensor}

FrozenModel(script, min_nbor_dist) ==
    [kind |-> "frozen_model", script |-> script, min_nbor_dist |-> min_nbor_dist]

\* whatever a path other than input holds before the run
Other == [kind |-> "other"]

NoCheckpoint == [kind |-> "no_checkpoint"]

NoConfig == [kind |-> "unset"]

ControlJson(j) == [kind |-> "json", data |-> j]

Checkpoint(config) == [kind |-> "checkpoint", config |-> config]

FrozenGraph(ckpt) == [kind |-> "frozen_graph", ckpt |-> ckpt]

CompressedModel(raw, old) == [kind |-> "compressed_model", raw |-> raw, old |-> old]

----------------------------------------------------------------------------
(* Reading the tensors, lines 64-72 *)

Return(v) == [raised |-> "none", value |-> v]
Raise(e) == [raised |-> e, value |-> NoTensor]

\* The results get_tensor_by_name(file, name) may have: the tensor, or an
\* exception.  A model without the tensor gives GraphWithoutTensorError.
get_tensor_by_name(file, name) ==
    IF file.kind = "frozen_model" /\ file[name] # NoTensor
    THEN {Return(file[name])}
             \cup {Raise(e) : e \in CalleeExceptions \ {"GraphWithoutTensorError"}}
    ELSE {Raise("GraphWithoutTensorError")}

\* a handler that logs and goes on instead of raising
TensorHandler_Swallow(e) == Running

\* except GraphWithoutTensorError as e: raise RuntimeError(...) from e
TensorHandler(e) ==
    IF e = "GraphWithoutTensorError"
    THEN Translated(e)
    ELSE Propagated(e, "get_tensor_by_name")

----------------------------------------------------------------------------
(* Configuration assembly, lines 76-87 *)

json_raises(t) == t.kind # "json_text"

json_loads(t) == t.doc

\* the second table given the first table's step
table_config_SameStep(e, s, f) == << e, s, s, int(f) >>

\* lines 82-87
table_config(e, s, f) == << e, s, SecondTableFactor * s, int(f) >>

\* lines 77-81: the section before table_config is set
compress_head(inp, min_nbor) ==
    [type |-> "se_e2_a", compress |-> TRUE, model_file |-> inp,
     min_nbor_dist |-> min_nbor]

\* lines 77-87: the whole section
compress_section(inp, min_nbor, e, s, f) ==
    [type |-> "se_e2_a", compress |-> TRUE, model_file |-> inp,
     min_nbor_dist |-> min_nbor, table_config |-> table_config(e, s, f)]

\* the section updated in place, without the reset to {} of line 77
set_compress_Update(j, section) ==
    [j EXCEPT !.model =
        [k \in DOMAIN j.model \cup {"compress"} |->
            IF k # "compress" THEN j.model[k]
            ELSE IF "compress" \notin DOMAIN j.model THEN section
            ELSE [f \in DOMAIN j.model.compress \cup DOMAIN section |->
                     IF f \in DOMAIN section
                     THEN section[f] ELSE j.model.compress[f]]]]

\* jdata["model"]["compress"] = section
set_compress(j, section) ==
    [j EXCEPT !.model =
        [k \in DOMAIN j.model \cup {"compress"} |->
            IF k = "compress" THEN section ELSE j.model[k]]]

----------------------------------------------------------------------------
(* The descriptor check, lines 90-96 *)

\* The descriptors normalize may return.  normalize is called, not defined,
\* here: the model lets it return any of these whatever it was given.  The
\* se_* descriptors come back with resnet_dt set, others may have no such key.
NormalizedDescriptors ==
    { [type |-> t, resnet_dt |-> r] :
          t \in {"se_a", "se_e2_a", "se_e2_r"}, r \in BOOLEAN }
    \cup { [type |-> "loc_frame"] }

CompressibleTypes == {"se_a", "se_e2_a"}

\* the first assert alone
descriptor_check_TypeOnly(j) ==
    IF j.model.descriptor.type \notin CompressibleTypes
    THEN "AssertionError" ELSE "ok"

\* the two asserts: "ok", or the exception raised
descriptor_check(j) ==
    LET d == j.model.descriptor
    IN  IF d.type \notin CompressibleTypes THEN "AssertionError"
        ELSE IF d.resnet_dt # FALSE THEN "AssertionError"
        ELSE "ok"

----------------------------------------------------------------------------
(* The stages, lines 98-131 *)

\* a handler that goes on to stage 2
TrainHandler_Swallow(e) == Running

\* no handler at all
TrainHandler_NoTranslation(e) == Propagated(e, "train")

\* except Exception as e
TrainHandler_CatchAll(e) == Translated(e)

\* except GraphTooLargeError as e: raise RuntimeError(...) from e
TrainHandler(e) ==
    IF e = "GraphTooLargeError" THEN Translated(e) ELSE Propagated(e, "train")

\* freeze and transfer are called outside any try
NoHandler(e, site) == Propagated(e, site)

\* a return after stage 2
AfterStage_SkipTransfer(stage) ==
    CASE stage = "train" -> "freeze"
      [] stage = "freeze" -> "return"
      [] stage = "transfer" -> "return"

\* the statement that follows a stage's return
AfterStage(stage) ==
    CASE stage = "train" -> "freeze"
      [] stage = "freeze" -> "transfer"
      [] stage = "transfer" -> "return"

Write(path, by) == [path |-> path, by |-> by]

\* What the stages do to the files, as section 1 of the specification
\* describes them.  train(INPUT, output) trains from the configuration in
\* INPUT, leaves a checkpoint and writes the configuration it used to output.
train_checkpoint(f, INPUT) == Checkpoint(f[INPUT])

train_files(f, INPUT, out) == [f EXCEPT ![out] = f[INPUT]]

\* freeze(checkpoint_folder, output) writes the checkpoint's graph to output
freeze_files(f, ckpt, out) == [f EXCEPT ![out] = FrozenGraph(ckpt)]

\* transfer(old_model, raw_model, output) writes raw_model, with the tensors
\* of old_model, to output
transfer_files(f, old_model, raw_model, out) ==
    [f EXCEPT ![out] = CompressedModel(f[raw_model], f[old_model])]

NotRaised == [site |-> "none", kind |-> "none"]
RaisedIn(site, e) == [site |-> site, kind |-> e]

----------------------------------------------------------------------------
(* The run *)

Init ==
    /\ pc = "get_training_script"
    /\ input \in Paths
    /\ output \in Paths
    /\ extrapolate \in 1..MaxExtrapolate
    /\ step \in 1..MaxStep
    /\ frequency \in Frequencies
    /\ input_model \in {FrozenModel(s, m) : s \in ScriptTensors, m \in MinNborTensors}
    /\ fs = [p \in Paths |-> IF p = input THEN input_model ELSE Other]
    /\ checkpoint = NoCheckpoint
    /\ tf_graph = {}
    /\ t_jdata = NoTensor
    /\ t_min_nbor_dist = NoTensor
    /\ jdata = NoConfig
    /\ normalize_arg = NoConfig
    /\ calls = <<>>
    /\ completed = <<>>
    /\ raised_in = NotRaised
    /\ writes = <<>>
    /\ outcome = Running

\* line 65
GetTrainingScript ==
    /\ pc = "get_training_script"
    /\ \E r \in get_tensor_by_name(fs[input], "script") :
          IF r.raised = "none"
          THEN /\ t_jdata' = r.value
               /\ pc' = "get_min_nbor_dist"
               /\ UNCHANGED << raised_in, outcome >>
          ELSE /\ raised_in' = RaisedIn("get_tensor_by_name", r.raised)
               /\ outcome' = TensorHandler(r.raised)
               /\ pc' = IF TensorHandler(r.raised) = Running THEN "assemble" ELSE "done"
               /\ UNCHANGED t_jdata
    /\ UNCHANGED << input, output, extrapolate, step, frequency, fs, input_model,
                    checkpoint, tf_graph, t_min_nbor_dist, jdata, normalize_arg,
                    calls, completed, writes >>

\* line 66
GetMinNborDist ==
    /\ pc = "get_min_nbor_dist"
    /\ \E r \in get_tensor_by_name(fs[input], "min_nbor_dist") :
          IF r.raised = "none"
          THEN /\ t_min_nbor_dist' = r.value
               /\ pc' = "assemble"
               /\ UNCHANGED << raised_in, outcome >>
          ELSE /\ raised_in' = RaisedIn("get_tensor_by_name", r.raised)
               /\ outcome' = TensorHandler(r.raised)
               /\ pc' = IF TensorHandler(r.raised) = Running THEN "assemble" ELSE "done"
               /\ UNCHANGED t_min_nbor_dist
    /\ UNCHANGED << input, output, extrapolate, step, frequency, fs, input_model,
                    checkpoint, tf_graph, t_jdata, jdata, normalize_arg,
                    calls, completed, writes >>

\* lines 73-87: tf.constant, json.loads and the assignments to jdata
AssembleConfig ==
    /\ pc = "assemble"
    /\ tf_graph' = tf_graph \cup {"train_attr/min_nbor_dist"}
    /\ IF json_raises(t_jdata)
       THEN /\ raised_in' = RaisedIn("json.loads", "JSONDecodeError")
            /\ outcome' = Propagated("JSONDecodeError", "json.loads")
            /\ pc' = "done"
            /\ UNCHANGED jdata
       ELSE IF "model" \notin DOMAIN json_loads(t_jdata)
       THEN /\ raised_in' = RaisedIn("compress", "KeyError")
            /\ outcome' = Propagated("KeyError", "compress")
            /\ pc' = "done"
            /\ jdata' = json_loads(t_jdata)
       ELSE IF int_raises(frequency)
       THEN /\ raised_in' = RaisedIn("int", "ValueError")
            /\ outcome' = Propagated("ValueError", "int")
            /\ pc' = "done"
            /\ jdata' = set_compress(json_loads(t_jdata),
                                     compress_head(input, t_min_nbor_dist))
       ELSE /\ jdata' = set_compress(json_loads(t_jdata),
                           compress_section(input, t_min_nbor_dist,
                                            extrapolate, step, frequency))
            /\ pc' = "normalize"
            /\ UNCHANGED << raised_in, outcome >>
    /\ UNCHANGED << input, output, extrapolate, step, frequency, fs, input_model,
                    checkpoint, t_jdata, t_min_nbor_dist, normalize_arg,
                    calls, completed, writes >>

\* line 88
Normalize ==
    /\ pc = "normalize"
    /\ normalize_arg' = jdata
    /\ \/ \E d \in NormalizedDescriptors :
             /\ jdata' = [jdata EXCEPT !.model.descriptor = d]
             /\ pc' = "check_descriptor"
             /\ UNCHANGED << raised_in, outcome >>
       \/ \E e \in CalleeExceptions :
             /\ raised_in' = RaisedIn("normalize", e)
             /\ outcome' = Propagated(e, "normalize")
             /\ pc' = "done"
             /\ UNCHANGED jdata
    /\ UNCHANGED << input, output, extrapolate, step, frequency, fs, input_model,
                    checkpoint, tf_graph, t_jdata, t_min_nbor_dist,
                    calls, completed, writes >>

\* lines 91-96
CheckDescriptor ==
    /\ pc = "check_descriptor"
    /\ IF descriptor_check(jdata) = "ok"
       THEN /\ pc' = "write_control_file"
            /\ UNCHANGED << raised_in, outcome >>
       ELSE /\ raised_in' = RaisedIn("compress", descriptor_check(jdata))
            /\ outcome' = Propagated(descriptor_check(jdata), "compress")
            /\ pc' = "done"
    /\ UNCHANGED << input, output, extrapolate, step, frequency, fs, input_model,
                    checkpoint, tf_graph, t_jdata, t_min_nbor_dist, jdata,
                    normalize_arg, calls, completed, writes >>

\* lines 101-103
WriteControlFile ==
    /\ pc = "write_control_file"
    /\ \/ /\ fs' = [fs EXCEPT ![control_file] = ControlJson(jdata)]
          /\ writes' = Append(writes, Write(control_file, "compress"))
          /\ pc' = "train"
          /\ UNCHANGED << raised_in, outcome >>
       \/ /\ raised_in' = RaisedIn("open", "OSError")
          /\ outcome' = Propagated("OSError", "open")
          /\ pc' = "done"
          /\ UNCHANGED << fs, writes >>
    /\ UNCHANGED << input, output, extrapolate, step, frequency, input_model,
                    checkpoint, tf_graph, t_jdata, t_min_nbor_dist, jdata,
                    normalize_arg, calls, completed >>

\* lines 104-121
Train ==
    /\ pc = "train"
    /\ calls' = Append(calls, [stage |-> "train",
                               saw |-> [INPUT |-> fs[control_file]]])
    /\ \/ /\ checkpoint' = train_checkpoint(fs, control_file)
          /\ fs' = train_files(fs, control_file, control_file)
          /\ writes' = Append(writes, Write(control_file, "train"))
          /\ completed' = Append(completed, "train")
          /\ pc' = AfterStage("train")
          /\ UNCHANGED << raised_in, outcome >>
       \/ \E e \in CalleeExceptions :
             /\ raised_in' = RaisedIn("train", e)
             /\ outcome' = TrainHandler(e)
             /\ pc' = IF TrainHandler(e) = Running
                      THEN AfterStage("train") ELSE "done"
             /\ UNCHANGED << checkpoint, fs, writes, completed >>
    /\ UNCHANGED << input, output, extrapolate, step, frequency, input_model,
                    tf_graph, t_jdata, t_min_nbor_dist, jdata, normalize_arg >>

\* line 126
Freeze ==
    /\ pc = "freeze"
    /\ calls' = Append(calls, [stage |-> "freeze",
                               saw |-> [checkpoint |-> checkpoint]])
    /\ \/ /\ fs' = freeze_files(fs, checkpoint, output)
          /\ writes' = Append(writes, Write(output, "freeze"))
          /\ completed' = Append(completed, "freeze")
          /\ pc' = IF AfterStage("freeze") = "return"
                   THEN "done" ELSE AfterStage("freeze")
          /\ outcome' = IF AfterStage("freeze") = "return"
                        THEN Returned ELSE outcome
          /\ UNCHANGED raised_in
       \/ \E e \in CalleeExceptions :
             /\ raised_in' = RaisedIn("freeze", e)
             /\ outcome' = NoHandler(e, "freeze")
             /\ pc' = IF NoHandler(e, "freeze") = Running
                      THEN AfterStage("freeze") ELSE "done"
             /\ UNCHANGED << fs, writes, completed >>
    /\ UNCHANGED << input, output, extrapolate, step, frequency, input_model,
                    checkpoint, tf_graph, t_jdata, t_min_nbor_dist, jdata,
                    normalize_arg >>

\* line 131, and the return that follows it
Transfer ==
    /\ pc = "transfer"
    /\ calls' = Append(calls, [stage |-> "transfer",
                               saw |-> [old_model |-> fs[input],
                                        raw_model |-> fs[output]]])
    /\ \/ /\ fs' = transfer_files(fs, input, output, output)
          /\ writes' = Append(writes, Write(output, "transfer"))
          /\ completed' = Append(completed, "transfer")
          /\ pc' = "done"
          /\ outcome' = Returned
          /\ UNCHANGED raised_in
       \/ \E e \in CalleeExceptions :
             /\ raised_in' = RaisedIn("transfer", e)
             /\ outcome' = NoHandler(e, "transfer")
             /\ pc' = "done"
             /\ UNCHANGED << fs, writes, completed >>
    /\ UNCHANGED << input, output, extrapolate, step, frequency, input_model,
                    checkpoint, tf_graph, t_jdata, t_min_nbor_dist, jdata,
                    normalize_arg >>

Next ==
    \/ GetTrainingScript
    \/ GetMinNborDist
    \/ AssembleConfig
    \/ Normalize
    \/ CheckDescriptor
    \/ WriteControlFile
    \/ Train
    \/ Freeze
    \/ Transfer

Spec == Init /\ [][Next]_vars

\* compress is one sequential call: while a step is enabled it is taken
FairSpec == Spec /\ WF_vars(Next)

----------------------------------------------------------------------------
(* Properties *)

StageSequence == << "train", "freeze", "transfer" >>

StagesCalled == [i \in 1..Len(calls) |-> calls[i].stage]

Invoked(stage) == \E i \in 1..Len(calls) : calls[i].stage = stage

Completed(stage) == \E i \in 1..Len(completed) : completed[i] = stage

IsPrefix(s, t) == Len(s) <= Len(t) /\ s = SubSeq(t, 1, Len(s))

\* the files as they were when compress started
InitialFiles == [p \in Paths |-> IF p = input THEN input_model ELSE Other]

WrittenBy(by) == {writes[i].path : i \in {j \in 1..Len(writes) : writes[j].by = by}}

\* C1: the stages are invoked in the order train, freeze, transfer, each at
\* most once; freeze is invoked only after train has returned without
\* raising, and transfer only after freeze has.
C1_StageOrder ==
    /\ IsPrefix(StagesCalled, StageSequence)
    /\ Invoked("freeze") => Completed("train")
    /\ Invoked("transfer") => Completed("freeze")

C1_Witness == Invoked("transfer") /\ pc = "done"

\* C2: when get_tensor_by_name raises GraphWithoutTensorError (the input
\* model lacks the training script or min_nbor_dist), compress ends with a
\* RuntimeError, compress.json is not written and no stage is invoked.
C2_MissingTensor ==
    raised_in = RaisedIn("get_tensor_by_name", "GraphWithoutTensorError")
    => /\ pc = "done"
       /\ outcome.kind = "RuntimeError"
       /\ outcome.raised_by = "compress"
       /\ calls = <<>>
       /\ \A i \in 1..Len(writes) : writes[i].path # control_file
       /\ fs[control_file] = InitialFiles[control_file]

C2_Witness ==
    /\ raised_in = RaisedIn("get_tensor_by_name", "GraphWithoutTensorError")
    /\ input_model.script # NoTensor
    /\ input_model.min_nbor_dist = NoTensor
    /\ pc = "done"

\* C3 as stated: when train raises GraphTooLargeError compress ends with a
\* RuntimeError, freeze and transfer are not invoked, and compress itself
\* never writes the output file.
C3_Original ==
    raised_in = RaisedIn("train", "GraphTooLargeError")
    => /\ pc = "done"
       /\ outcome.kind = "RuntimeError"
       /\ outcome.raised_by = "compress"
       /\ ~Invoked("freeze")
       /\ ~Invoked("transfer")
       /\ output \notin WrittenBy("compress")

\* C3 amended: when train raises GraphTooLargeError compress ends with a
\* RuntimeError, freeze and transfer are not invoked, and the only file
\* compress itself has written is the control file compress.json: the output
\* file is as it was unless output names compress.json.
C3_TrainTooLarge ==
    raised_in = RaisedIn("train", "GraphTooLargeError")
    => /\ pc = "done"
       /\ outcome.kind = "RuntimeError"
       /\ outcome.raised_by = "compress"
       /\ ~Invoked("freeze")
       /\ ~Invoked("transfer")
       /\ WrittenBy("compress") = {control_file}
       /\ output # control_file => fs[output] = InitialFiles[output]

C3_Witness ==
    /\ raised_in = RaisedIn("train", "GraphTooLargeError")
    /\ output # control_file
    /\ pc = "done"

\* C4: whatever the input and output paths, when transfer is invoked the
\* file it reads as old_model holds the original input model and the file it
\* reads as raw_model holds the graph written by freeze.
C4_TransferReadsOriginal ==
    \A i \in 1..Len(calls) :
        calls[i].stage = "transfer"
        => /\ calls[i].saw.old_model = input_model
           /\ calls[i].saw.raw_model = FrozenGraph(checkpoint)

\* C5: the table_config placed in the configuration is the 4-element
\* sequence [extrapolate, step, 10 * step, int(frequency)].
C5_TableConfig ==
    normalize_arg # NoConfig
    => LET tc == normalize_arg.model.compress.table_config
       IN  /\ Len(tc) = 4
           /\ tc[1] = extrapolate
           /\ tc[2] = step
           /\ tc[3] = 10 * step
           /\ tc[4] = int(frequency)

C5_Witness ==
    /\ normalize_arg # NoConfig
    /\ step > 1
    /\ frequency = << " ", "7", " " >>
    /\ normalize_arg.model.compress.table_config = << extrapolate, 2, 20, 7 >>

NormalizeReturned == normalize_arg # NoConfig /\ raised_in.site # "normalize"

Compressible(d) ==
    /\ d.type = "se_a" \/ d.type = "se_e2_a"
    /\ d.resnet_dt = FALSE

\* C6: if the normalized descriptor's type is neither se_a nor se_e2_a, or
\* its resnet_dt is not False, compress ends with an AssertionError with
\* compress.json unwritten and no stage invoked; and train is only invoked
\* with a configuration whose descriptor passes both tests.
C6_DescriptorGate ==
    /\ (NormalizeReturned /\ pc # "check_descriptor"
            /\ ~Compressible(jdata.model.descriptor))
       => /\ pc = "done"
          /\ outcome.kind = "AssertionError"
          /\ writes = <<>>
          /\ fs = InitialFiles
          /\ calls = <<>>
    /\ \A i \in 1..Len(calls) :
          calls[i].stage = "train"
          => /\ calls[i].saw.INPUT.kind = "json"
             /\ Compressible(calls[i].saw.INPUT.data.model.descriptor)

C6_Witness ==
    /\ outcome.kind = "AssertionError"
    /\ jdata.model.descriptor.type = "se_e2_a"
    /\ jdata.model.descriptor.resnet_dt = TRUE

TranslatedAt(site, e) ==
    \/ site = "get_tensor_by_name" /\ e = "GraphWithoutTensorError"
    \/ site = "train" /\ e = "GraphTooLargeError"

\* C7: GraphWithoutTensorError from reading the tensors and
\* GraphTooLargeError from train end compress with a RuntimeError raised
\* from them; every other exception, wherever it is raised, leaves compress
\* as it was raised, and the stage that raised it is the last one invoked.
C7_TwoTranslations ==
    raised_in # NotRaised
    => /\ pc = "done"
       /\ IF TranslatedAt(raised_in.site, raised_in.kind)
          THEN outcome = [kind |-> "RuntimeError", cause |-> raised_in.kind,
                          raised_by |-> "compress"]
          ELSE outcome = [kind |-> raised_in.kind, cause |-> "none",
                          raised_by |-> raised_in.site]
       /\ raised_in.site \in {"train", "freeze", "transfer"}
          => /\ calls # <<>>
             /\ calls[Len(calls)].stage = raised_in.site
             /\ ~Completed(raised_in.site)

C7_Witness ==
    /\ raised_in = RaisedIn("train", "GraphWithoutTensorError")
    /\ outcome.kind = "GraphWithoutTensorError"
    /\ pc = "done"

\* C8: the configuration passed to normalize is the training script of the
\* input model with model.compress replaced: every other key is as it was,
\* and model.compress holds exactly type, compress, model_file,
\* min_nbor_dist and table_config, whatever it held before.
C8_OnlyCompressChanged ==
    normalize_arg # NoConfig
    => LET script == input_model.script.doc
           section == normalize_arg.model.compress
       IN  /\ DOMAIN normalize_arg = DOMAIN script
           /\ \A k \in DOMAIN script \ {"model"} : normalize_arg[k] = script[k]
           /\ DOMAIN normalize_arg.model = DOMAIN script.model \cup {"compress"}
           /\ \A k \in DOMAIN script.model \ {"compress"} :
                  normalize_arg.model[k] = script.model[k]
           /\ DOMAIN section = {"type", "compress", "model_file",
                                "min_nbor_dist", "table_config"}
           /\ section.type = "se_e2_a"
           /\ section.compress = TRUE
           /\ section.model_file = input
           /\ section.min_nbor_dist = input_model.min_nbor_dist

C8_Witness ==
    /\ normalize_arg # NoConfig
    /\ "compress" \in DOMAIN input_model.script.doc.model
    /\ input_model.script.doc.model.compress = OldCompress

WritesTo(path) == {i \in 1..Len(writes) : writes[i].path = path}

LastWrite(path) == CHOOSE i \in WritesTo(path) : \A j \in WritesTo(path) : j <= i

\* C9, the outcomes: a run that has ended has either returned, with the
\* three stages completed once each in order and transfer the last writer
\* of the output file, after freeze; or raised, with a proper prefix of
\* train, freeze, transfer completed.
C9_Outcome ==
    /\ IsPrefix(completed, StageSequence)
    /\ pc = "done" <=> outcome # Running
    /\ outcome = Returned
       => /\ completed = StageSequence
          /\ WritesTo(output) # {}
          /\ writes[LastWrite(output)].by = "transfer"
          /\ \E i \in WritesTo(output) :
                 i < LastWrite(output) /\ writes[i].by = "freeze"
    /\ (pc = "done" /\ outcome # Returned)
       => completed # StageSequence

\* C9: every run of compress ends, and ends in one of the two outcomes.
C9_Terminates == [] C9_Outcome /\ <>(pc = "done")

C9_Witness == outcome = Returned /\ output = input

====
